---- MODULE Spec2Model ----
(***************************************************************************)
(* The OAuth token exchange of go.strava (oauth.go): the two authorization *)
(* URL builders, ExchangeToken, OAuthAuthenticator.Authorize and the       *)
(* callback handler built by OAuthAuthenticator.HandlerFunc.               *)
(*                                                                         *)
(* Every operation is one synchronous call, so each is one action.  The    *)
(* state records the call that ran last: its arguments, what it returned,  *)
(* the POSTs it issued, the continuations it invoked and the clients it    *)
(* asked the generator for.  The answer of the HTTP transport is an input. *)
(***************************************************************************)
EXTENDS Integers, Sequences, FiniteSets, TLC

VARIABLES
    ClientId,       \* package variable ClientId (int)
    ClientSecret,   \* package variable ClientSecret (string)
    auth,           \* the OAuthAuthenticator value the methods are called on
    op,             \* the operation that ran last
    args,           \* its arguments (the transport's answer included)
    ret,            \* what it returned
    requests,       \* the POSTs it issued, in order
    calls,          \* the continuations it invoked, in order
    generated       \* the requests RequestClientGenerator was applied to

vars == <<ClientId, ClientSecret, auth, op, args, ret, requests, calls, generated>>

-----------------------------------------------------------------------------
(* Bounds and input domains *)

\* longest "errors" list of an error body
MaxErrors == 2

ClientIds == {-1, 0, 7}
Secrets == {"s3cr3t"}
CallbackURLs == {"", "http://app/cb"}
Scopes == {"", "public", "write,view_private"}
States == {"", "abc123"}
Codes == {"", "c0de"}
ErrorParams == {"", "access_denied", "server_error"}
StatusCodes == {100, 200, 204, 302, 401, 500, 503}
Resources == {"Application", "RequestToken", "Athlete"}

-----------------------------------------------------------------------------
(* Values *)

nil == "nil"
DefaultClient == "http.DefaultClient"
\* the API base path, an opaque prefix
basePath == "basePath"

\* error values; kind names the Go value or type
NoError == [kind |-> "nil"]
OAuthInvalidCodeErr == [kind |-> "OAuthInvalidCodeErr"]
OAuthServerErr == [kind |-> "OAuthServerErr"]
OAuthInvalidCredentialsErr == [kind |-> "OAuthInvalidCredentialsErr"]
OAuthAuthorizationDeniedErr == [kind |-> "OAuthAuthorizationDeniedErr"]
\* the error http.Client.PostForm returns when the request fails
TransportErr == [kind |-> "url.Error"]
\* the error json.Unmarshal returns
JSONErr(cause) == [kind |-> "json", cause |-> cause]
\* errors.New(text)
ErrorsNew(text) == [kind |-> "errors.errorString", text |-> text]

\* a nil *AuthorizationResponse
NoResponse == [isNil |-> TRUE]

\* bounded sequences over S
SeqUpTo(S, n) == UNION {[1..k -> S] : k \in 0..n}

ErrorDetails == [Resource : Resources]

\* Response bodies.  "malformed" is not JSON at all; "mistyped" is JSON whose
\* token fields do not have the types of AuthorizationResponse; "object"
\* decodes into either target.
Bodies ==
    {[kind |-> "malformed", errors |-> <<>>, access_token |-> "", State |-> ""]}
    \cup [kind : {"mistyped", "object"}, errors : SeqUpTo(ErrorDetails, MaxErrors),
          access_token : {"tok"}, State : {"", "srv"}]

\* What the transport answers to a POST: a failure, or a status and a body.
Answers ==
    {[failed |-> TRUE, StatusCode |-> 0,
      Body |-> [kind |-> "malformed", errors |-> <<>>, access_token |-> "", State |-> ""]]}
    \cup [failed : {FALSE}, StatusCode : StatusCodes, Body : Bodies]

-----------------------------------------------------------------------------
(* Library functions the code calls *)

\* url.Values.Set
Set(values, key, value) ==
    [k \in DOMAIN values \cup {key} |-> IF k = key THEN value ELSE values[k]]

\* http.Client.PostForm: the request as issued, and the transport's answer
PostForm(client, url, values, answer) ==
    [request |-> [client |-> client, method |-> "POST", url |-> url, form |-> values],
     resp |-> answer,
     err |-> IF answer.failed THEN TransportErr ELSE NoError]

\* json.Unmarshal into Error / StravaErrorResponse: nothing is stored when the
\* input is not JSON
UnmarshalError(contents) ==
    IF contents.kind = "malformed"
    THEN [Errors |-> <<>>, Message |-> ""]
    ELSE [Errors |-> contents.errors, Message |-> "error"]

\* json.Unmarshal into AuthorizationResponse
UnmarshalAuthorizationResponse(contents) ==
    CASE contents.kind = "malformed" ->
           [response |-> NoResponse, err |-> JSONErr("SyntaxError")]
      [] contents.kind = "mistyped" ->
           [response |-> NoResponse, err |-> JSONErr("UnmarshalTypeError")]
      [] OTHER ->
           [response |-> [isNil |-> FALSE, AccessToken |-> contents.access_token,
                          State |-> contents.State],
            err |-> NoError]

-----------------------------------------------------------------------------
(* ExchangeToken *)

ExchangeToken(values, answer) ==
    LET form == Set(Set(values, "client_id", ToString(ClientId)),
                    "client_secret", ClientSecret)
        post == PostForm(DefaultClient, basePath \o "/oauth/token", form, answer)
    IN  IF post.err # NoError
        THEN [response |-> NoResponse, err |-> post.err, requests |-> <<post.request>>]
        ELSE IF post.resp.StatusCode \div 100 # 2
        THEN LET stravaErr == UnmarshalError(post.resp.Body)
             IN  [response |-> NoResponse, err |-> ErrorsNew("Strava API error"),
                  requests |-> <<post.request>>]
        ELSE LET decoded == UnmarshalAuthorizationResponse(post.resp.Body)
             IN  IF decoded.err # NoError
                 THEN [response |-> NoResponse, err |-> decoded.err,
                       requests |-> <<post.request>>]
                 ELSE [response |-> decoded.response, err |-> NoError,
                       requests |-> <<post.request>>]

-----------------------------------------------------------------------------
(* OAuthAuthenticator.Authorize *)

\* AuthorizeStatusError with the error body consulted before the status class
AuthorizeStatusError_BodyFirst(resp) ==
    IF resp.StatusCode \div 100 # 2
    THEN LET response == UnmarshalError(resp.Body)
         IN  IF Len(response.Errors) = 0 THEN OAuthServerErr
             ELSE IF response.Errors[1].Resource = "Application"
             THEN OAuthInvalidCredentialsErr
             ELSE IF response.Errors[1].Resource = "RequestToken"
             THEN OAuthInvalidCodeErr
             ELSE IF resp.StatusCode \div 100 = 5 THEN OAuthServerErr
             ELSE [kind |-> "Error", Errors |-> response.Errors,
                   Message |-> response.Message]
    ELSE NoError

\* The error a response's status and body map to; NoError for a 2xx response.
AuthorizeStatusError(resp) ==
    IF resp.StatusCode \div 100 = 5
    THEN OAuthServerErr
    ELSE IF resp.StatusCode \div 100 # 2
    THEN LET response == UnmarshalError(resp.Body)
         IN  IF Len(response.Errors) = 0 THEN OAuthServerErr
             ELSE IF response.Errors[1].Resource = "Application"
             THEN OAuthInvalidCredentialsErr
             ELSE IF response.Errors[1].Resource = "RequestToken"
             THEN OAuthInvalidCodeErr
             ELSE [kind |-> "Error", Errors |-> response.Errors,
                   Message |-> response.Message]
    ELSE NoError

\* AuthorizeDecode with the decoder's error dropped: the zero value is returned
AuthorizeDecode_ErrDropped(resp) ==
    LET decoded == UnmarshalAuthorizationResponse(resp.Body)
    IN  IF decoded.err # NoError
        THEN [response |-> [isNil |-> FALSE, AccessToken |-> "", State |-> ""],
              err |-> NoError]
        ELSE [response |-> decoded.response, err |-> NoError]

\* The result for a 2xx response: the decoded body, or the decoder's error.
AuthorizeDecode(resp) ==
    LET decoded == UnmarshalAuthorizationResponse(resp.Body)
    IN  IF decoded.err # NoError
        THEN [response |-> NoResponse, err |-> decoded.err]
        ELSE [response |-> decoded.response, err |-> NoError]

\* Authorize without the check of the code: the empty code is POSTed
Authorize_NoCodeCheck(code, client, answer) ==
    LET c == IF client = nil THEN DefaultClient ELSE client
        post == PostForm(c, basePath \o "/oauth/token",
                         [client_id |-> ToString(ClientId),
                          client_secret |-> ClientSecret,
                          code |-> code],
                         answer)
    IN  IF post.err # NoError
        THEN [response |-> NoResponse, err |-> post.err,
              requests |-> <<post.request>>]
        ELSE IF AuthorizeStatusError(post.resp) # NoError
        THEN [response |-> NoResponse, err |-> AuthorizeStatusError(post.resp),
              requests |-> <<post.request>>]
        ELSE [response |-> AuthorizeDecode(post.resp).response,
              err |-> AuthorizeDecode(post.resp).err,
              requests |-> <<post.request>>]

\* Authorize POSTing a second time when the first POST fails or answers 5xx
Authorize_Retry(code, client, answer) ==
    IF code = ""
    THEN [response |-> NoResponse, err |-> OAuthInvalidCodeErr, requests |-> <<>>]
    ELSE LET c == IF client = nil THEN DefaultClient ELSE client
             post == PostForm(c, basePath \o "/oauth/token",
                              [client_id |-> ToString(ClientId),
                               client_secret |-> ClientSecret,
                               code |-> code],
                              answer)
             again == post.err # NoError \/ post.resp.StatusCode \div 100 = 5
             sent == IF again THEN <<post.request, post.request>>
                     ELSE <<post.request>>
         IN  IF post.err # NoError
             THEN [response |-> NoResponse, err |-> post.err, requests |-> sent]
             ELSE IF AuthorizeStatusError(post.resp) # NoError
             THEN [response |-> NoResponse, err |-> AuthorizeStatusError(post.resp),
                   requests |-> sent]
             ELSE [response |-> AuthorizeDecode(post.resp).response,
                   err |-> AuthorizeDecode(post.resp).err,
                   requests |-> sent]

Authorize(code, client, answer) ==
    IF code = ""
    THEN [response |-> NoResponse, err |-> OAuthInvalidCodeErr, requests |-> <<>>]
    ELSE LET c == IF client = nil THEN DefaultClient ELSE client
             post == PostForm(c, basePath \o "/oauth/token",
                              [client_id |-> ToString(ClientId),
                               client_secret |-> ClientSecret,
                               code |-> code],
                              answer)
         IN  IF post.err # NoError
             THEN [response |-> NoResponse, err |-> post.err,
                   requests |-> <<post.request>>]
             ELSE IF AuthorizeStatusError(post.resp) # NoError
             THEN [response |-> NoResponse, err |-> AuthorizeStatusError(post.resp),
                   requests |-> <<post.request>>]
             ELSE [response |-> AuthorizeDecode(post.resp).response,
                   err |-> AuthorizeDecode(post.resp).err,
                   requests |-> <<post.request>>]

-----------------------------------------------------------------------------
(* The handler OAuthAuthenticator.HandlerFunc builds *)

\* HandlerFunc without the return after the denial: the exchange still runs
HandlerFunc_NoReturn(r, made, answer) ==
    LET denied == IF r.error = "access_denied"
                  THEN <<[fn |-> "failure", err |-> OAuthAuthorizationDeniedErr,
                          auth |-> NoResponse]>>
                  ELSE <<>>
        generate == auth.RequestClientGenerator # nil
        client == IF generate THEN made ELSE DefaultClient
        res == Authorize(r.code, client, answer)
    IN  IF res.err # NoError
        THEN [calls |-> denied \o <<[fn |-> "failure", err |-> res.err,
                                     auth |-> NoResponse]>>,
              requests |-> res.requests,
              generated |-> IF generate THEN <<r>> ELSE <<>>]
        ELSE [calls |-> denied \o <<[fn |-> "success", err |-> NoError,
                                     auth |-> [res.response EXCEPT !.State = r.state]]>>,
              requests |-> res.requests,
              generated |-> IF generate THEN <<r>> ELSE <<>>]

\* HandlerFunc with the client built before the denial is looked at
HandlerFunc_ClientFirst(r, made, answer) ==
    LET generate == auth.RequestClientGenerator # nil
        client == IF generate THEN made ELSE DefaultClient
        res == Authorize(r.code, client, answer)
    IN  IF r.error = "access_denied"
        THEN [calls |-> <<[fn |-> "failure", err |-> OAuthAuthorizationDeniedErr,
                          auth |-> NoResponse]>>,
              requests |-> <<>>,
              generated |-> IF generate THEN <<r>> ELSE <<>>]
        ELSE IF res.err # NoError
        THEN [calls |-> <<[fn |-> "failure", err |-> res.err, auth |-> NoResponse]>>,
              requests |-> res.requests,
              generated |-> IF generate THEN <<r>> ELSE <<>>]
        ELSE [calls |-> <<[fn |-> "success", err |-> NoError,
                          auth |-> [res.response EXCEPT !.State = r.state]]>>,
              requests |-> res.requests,
              generated |-> IF generate THEN <<r>> ELSE <<>>]

\* HandlerFunc without the assignment to resp.State
HandlerFunc_StateKept(r, made, answer) ==
    IF r.error = "access_denied"
    THEN [calls |-> <<[fn |-> "failure", err |-> OAuthAuthorizationDeniedErr,
                      auth |-> NoResponse]>>,
          requests |-> <<>>, generated |-> <<>>]
    ELSE LET generate == auth.RequestClientGenerator # nil
             client == IF generate THEN made ELSE DefaultClient
             res == Authorize(r.code, client, answer)
         IN  IF res.err # NoError
             THEN [calls |-> <<[fn |-> "failure", err |-> res.err, auth |-> NoResponse]>>,
                   requests |-> res.requests,
                   generated |-> IF generate THEN <<r>> ELSE <<>>]
             ELSE [calls |-> <<[fn |-> "success", err |-> NoError,
                               auth |-> res.response]>>,
                   requests |-> res.requests,
                   generated |-> IF generate THEN <<r>> ELSE <<>>]

\* r is the inbound request (its error, code and state form values), made is
\* the client RequestClientGenerator returns for it when one is configured.
HandlerFunc(r, made, answer) ==
    IF r.error = "access_denied"
    THEN [calls |-> <<[fn |-> "failure", err |-> OAuthAuthorizationDeniedErr,
                      auth |-> NoResponse]>>,
          requests |-> <<>>, generated |-> <<>>]
    ELSE LET generate == auth.RequestClientGenerator # nil
             client == IF generate THEN made ELSE DefaultClient
             res == Authorize(r.code, client, answer)
         IN  IF res.err # NoError
             THEN [calls |-> <<[fn |-> "failure", err |-> res.err, auth |-> NoResponse]>>,
                   requests |-> res.requests,
                   generated |-> IF generate THEN <<r>> ELSE <<>>]
             ELSE [calls |-> <<[fn |-> "success", err |-> NoError,
                               auth |-> [res.response EXCEPT !.State = r.state]]>>,
                   requests |-> res.requests,
                   generated |-> IF generate THEN <<r>> ELSE <<>>]

-----------------------------------------------------------------------------
(* The authorization URL builders.  A URL is its path and its query, the    *)
(* query a sequence of <<key, value>> in the order written.                 *)

NoURL == [path |-> "", query |-> <<>>]

\* the method with the credentials of the token exchange copied into the query
AuthenticatorAuthorizationURL_WithSecret(state, scope, force) ==
    LET path == [path |-> basePath \o "/oauth/authorize",
                 query |-> << <<"client_id", ToString(ClientId)>>,
                              <<"client_secret", ClientSecret>>,
                              <<"response_type", "code">>,
                              <<"redirect_uri", auth.CallbackURL>>,
                              <<"scope", scope>> >>]
        withState == IF state # ""
                     THEN [path EXCEPT !.query = Append(@, <<"state", state>>)]
                     ELSE path
        withForce == IF force
                     THEN [withState EXCEPT
                             !.query = Append(@, <<"approval_prompt", "force">>)]
                     ELSE withState
    IN  [url |-> withForce, err |-> NoError]

\* the method: no validation, state and approval_prompt appended on demand
AuthenticatorAuthorizationURL(state, scope, force) ==
    LET path == [path |-> basePath \o "/oauth/authorize",
                 query |-> << <<"client_id", ToString(ClientId)>>,
                              <<"response_type", "code">>,
                              <<"redirect_uri", auth.CallbackURL>>,
                              <<"scope", scope>> >>]
        withState == IF state # ""
                     THEN [path EXCEPT !.query = Append(@, <<"state", state>>)]
                     ELSE path
        withForce == IF force
                     THEN [withState EXCEPT
                             !.query = Append(@, <<"approval_prompt", "force">>)]
                     ELSE withState
    IN  [url |-> withForce, err |-> NoError]

\* the package function
AuthorizationURL(callbackURL, scope) ==
    IF ClientId = 0 \/ ClientId < 0
    THEN [url |-> NoURL, err |-> ErrorsNew("clientId is empty")]
    ELSE IF callbackURL = ""
    THEN [url |-> NoURL, err |-> ErrorsNew("callbackURL is empty")]
    ELSE IF scope = ""
    THEN [url |-> NoURL, err |-> ErrorsNew("scope is empty")]
    ELSE [url |-> [path |-> basePath \o "/oauth/authorize",
                   query |-> << <<"client_id", ToString(ClientId)>>,
                                <<"response_type", "code">>,
                                <<"redirect_uri", callbackURL>>,
                                <<"scope", scope>> >>],
          err |-> NoError]

-----------------------------------------------------------------------------
(* The state machine *)

Requests == [error : ErrorParams, code : Codes, state : States]
Clients == {nil, "urlfetch.Client"}
Values == {[code |-> "c0de"], [refresh_token |-> "r3fresh"],
           [code |-> "c0de", client_secret |-> "forged", client_id |-> "1"]}

Init ==
    /\ ClientId \in ClientIds
    /\ ClientSecret \in Secrets
    /\ auth \in [CallbackURL : CallbackURLs, RequestClientGenerator : {nil, "generator"}]
    /\ op = "none"
    /\ args = [none |-> TRUE]
    /\ ret = [none |-> TRUE]
    /\ requests = <<>>
    /\ calls = <<>>
    /\ generated = <<>>

CallExchangeToken ==
    /\ op = "none"
    /\ \E values \in Values, answer \in Answers :
        LET res == ExchangeToken(values, answer)
        IN  /\ op' = "ExchangeToken"
            /\ args' = [values |-> values, answer |-> answer]
            /\ ret' = [response |-> res.response, err |-> res.err]
            /\ requests' = res.requests
            /\ calls' = <<>>
            /\ generated' = <<>>
            /\ UNCHANGED <<ClientId, ClientSecret, auth>>

CallAuthorize ==
    /\ op = "none"
    /\ \E code \in Codes, client \in Clients, answer \in Answers :
        LET res == Authorize(code, client, answer)
        IN  /\ op' = "Authorize"
            /\ args' = [code |-> code, client |-> client, answer |-> answer]
            /\ ret' = [response |-> res.response, err |-> res.err]
            /\ requests' = res.requests
            /\ calls' = <<>>
            /\ generated' = <<>>
            /\ UNCHANGED <<ClientId, ClientSecret, auth>>

ServeCallback ==
    /\ op = "none"
    /\ \E r \in Requests, made \in Clients, answer \in Answers :
        LET res == HandlerFunc(r, made, answer)
        IN  /\ op' = "HandlerFunc"
            /\ args' = [r |-> r, made |-> made, answer |-> answer]
            /\ ret' = [none |-> TRUE]
            /\ requests' = res.requests
            /\ calls' = res.calls
            /\ generated' = res.generated
            /\ UNCHANGED <<ClientId, ClientSecret, auth>>

CallAuthenticatorAuthorizationURL ==
    /\ op = "none"
    /\ \E state \in States, scope \in Scopes, force \in BOOLEAN :
        /\ op' = "OAuthAuthenticator.AuthorizationURL"
        /\ args' = [callbackURL |-> auth.CallbackURL, scope |-> scope,
                    state |-> state, force |-> force]
        /\ ret' = AuthenticatorAuthorizationURL(state, scope, force)
        /\ requests' = <<>>
        /\ calls' = <<>>
        /\ generated' = <<>>
        /\ UNCHANGED <<ClientId, ClientSecret, auth>>

CallAuthorizationURL ==
    /\ op = "none"
    /\ \E callbackURL \in CallbackURLs, scope \in Scopes :
        /\ op' = "AuthorizationURL"
        /\ args' = [callbackURL |-> callbackURL, scope |-> scope,
                    state |-> "", force |-> FALSE]
        /\ ret' = AuthorizationURL(callbackURL, scope)
        /\ requests' = <<>>
        /\ calls' = <<>>
        /\ generated' = <<>>
        /\ UNCHANGED <<ClientId, ClientSecret, auth>>

\* the caller takes the result; the next call starts from a clean record
Return ==
    /\ op # "none"
    /\ op' = "none"
    /\ args' = [none |-> TRUE]
    /\ ret' = [none |-> TRUE]
    /\ requests' = <<>>
    /\ calls' = <<>>
    /\ generated' = <<>>
    /\ UNCHANGED <<ClientId, ClientSecret, auth>>

Next ==
    \/ CallExchangeToken
    \/ CallAuthorize
    \/ ServeCallback
    \/ CallAuthenticatorAuthorizationURL
    \/ CallAuthorizationURL
    \/ Return

Spec == Init /\ [][Next]_vars

-----------------------------------------------------------------------------
(* Properties *)

\* the last call got an answer from the transport with a status outside 2xx
Non2xx == ~args.answer.failed /\ args.answer.StatusCode \div 100 # 2
\* ... with a status in 2xx
Is2xx == ~args.answer.failed /\ args.answer.StatusCode \div 100 = 2
\* the error details of the answer's body; none when the body is not JSON
Details == IF args.answer.Body.kind = "malformed" THEN <<>>
           ELSE args.answer.Body.errors
AuthorizeRan == op = "Authorize" /\ args.code # ""

\* C1: for every non-2xx response Authorize (non-empty code) returns no
\* response and: ServerError for 5xx whatever the body; otherwise ServerError
\* when the body has no error details (a malformed body included); otherwise
\* InvalidCredentialsError when the first detail's resource is "Application";
\* otherwise InvalidCodeError when it is "RequestToken"; otherwise an ApiError
\* wrapping the parsed error response.
C1_AuthorizeErrorOrder ==
    (AuthorizeRan /\ Non2xx) =>
        /\ ret.response = NoResponse
        /\ ret.err =
             IF args.answer.StatusCode \div 100 = 5 THEN OAuthServerErr
             ELSE IF Details = <<>> THEN OAuthServerErr
             ELSE IF Details[1].Resource = "Application"
             THEN OAuthInvalidCredentialsErr
             ELSE IF Details[1].Resource = "RequestToken" THEN OAuthInvalidCodeErr
             ELSE [kind |-> "Error", Errors |-> Details, Message |-> "error"]

\* a 5xx answer whose body names the Application resource, answered ServerError
C1_Witness ==
    /\ AuthorizeRan /\ Non2xx
    /\ args.answer.StatusCode = 503
    /\ Len(Details) = 2 /\ Details[1].Resource = "Application"
    /\ ret.err = OAuthServerErr

\* C2: ExchangeToken classifies every non-2xx response like Authorize does:
\* ServerError for 5xx; otherwise ServerError without error details,
\* InvalidCredentialsError for "Application", InvalidCodeError for
\* "RequestToken", and otherwise an ApiError wrapping the ErrorResponse.
C2_ExchangeTokenClassifies ==
    (op = "ExchangeToken" /\ Non2xx) =>
        ret.err =
             IF args.answer.StatusCode \div 100 = 5 THEN OAuthServerErr
             ELSE IF Details = <<>> THEN OAuthServerErr
             ELSE IF Details[1].Resource = "Application"
             THEN OAuthInvalidCredentialsErr
             ELSE IF Details[1].Resource = "RequestToken" THEN OAuthInvalidCodeErr
             ELSE [kind |-> "Error", Errors |-> Details, Message |-> "error"]

\* C3: Authorize with an empty code returns InvalidCodeError and a nil
\* response and issues no request, on the supplied or the default client,
\* whatever the transport would have answered.
C3_EmptyCodeNoRequest ==
    (op = "Authorize" /\ args.code = "") =>
        /\ ret.err = OAuthInvalidCodeErr
        /\ ret.response = NoResponse
        /\ requests = <<>>

\* an empty code with a supplied client whose transport would have answered 200
C3_Witness ==
    /\ op = "Authorize" /\ args.code = ""
    /\ args.client # nil
    /\ Is2xx /\ args.answer.Body.kind = "object"
    /\ ret.err = OAuthInvalidCodeErr

\* what Authorize answers for the request the handler was given
HandlerAuthorize == Authorize(args.r.code, nil, args.answer)

\* C4: for every inbound request the handler invokes exactly one continuation,
\* once: failure whenever the request is denied or Authorize returns an error,
\* success only when Authorize returned a response and no error.
C4_ExactlyOneContinuation ==
    op = "HandlerFunc" =>
        /\ Len(calls) = 1
        /\ calls[1].fn \in {"success", "failure"}
        /\ (args.r.error = "access_denied" \/ HandlerAuthorize.err # NoError)
              => calls[1].fn = "failure"
        /\ calls[1].fn = "success"
              => /\ HandlerAuthorize.err = NoError
                 /\ HandlerAuthorize.response # NoResponse
                 /\ calls[1].auth # NoResponse

\* a request that is not denied, whose exchange fails in the transport
C4_Witness ==
    /\ op = "HandlerFunc"
    /\ args.r.error # "access_denied" /\ args.r.code # ""
    /\ args.answer.failed
    /\ calls = <<[fn |-> "failure", err |-> TransportErr, auth |-> NoResponse]>>

\* C5: when the error parameter is access_denied the handler invokes failure
\* with AuthorizationDeniedError, never success, never the client generator,
\* and issues no request, whatever code and state the request carries.
C5_DeniedIsLocal ==
    (op = "HandlerFunc" /\ args.r.error = "access_denied") =>
        /\ calls = <<[fn |-> "failure", err |-> OAuthAuthorizationDeniedErr,
                     auth |-> NoResponse]>>
        /\ generated = <<>>
        /\ requests = <<>>

\* a denied request carrying a code and a state, a generator being configured
\* and the transport ready to answer 200
C5_Witness ==
    /\ op = "HandlerFunc" /\ args.r.error = "access_denied"
    /\ args.r.code # "" /\ args.r.state # ""
    /\ auth.RequestClientGenerator # nil
    /\ Is2xx /\ args.answer.Body.kind = "object"
    /\ Len(calls) = 1

\* C6: whenever the handler invokes success, the response's State is the
\* request's state parameter, also when the body carries another State.
C6_StateFromRequest ==
    op = "HandlerFunc" =>
        \A i \in 1..Len(calls) :
            calls[i].fn = "success" => calls[i].auth.State = args.r.state

\* success for state=abc123 although the body says "srv"
C6_Witness ==
    /\ op = "HandlerFunc"
    /\ args.r.state = "abc123"
    /\ Is2xx /\ args.answer.Body.kind = "object" /\ args.answer.Body.State = "srv"
    /\ Len(calls) = 1 /\ calls[1].fn = "success"
    /\ calls[1].auth.AccessToken = "tok"

URLBuilders == {"AuthorizationURL", "OAuthAuthenticator.AuthorizationURL"}

\* C7: either URL builder fails, returning no URL, whenever the client id is
\* unset or non-positive, the callback URL is empty or the scope is empty.
C7_BuildersValidate ==
    (/\ op \in URLBuilders
     /\ (ClientId <= 0 \/ args.callbackURL = "" \/ args.scope = ""))
        => /\ ret.err # NoError
           /\ ret.url = NoURL

\* C8: for a 2xx response Authorize returns the decoder's error and no
\* response when the body does not decode as an AuthorizationResponse, the
\* decoded response and no error when it does; it never returns a response
\* together with an error.
C8_DecodeOrError ==
    /\ (AuthorizeRan /\ Is2xx /\ args.answer.Body.kind # "object") =>
          /\ ret.err.kind = "json"
          /\ ret.err = UnmarshalAuthorizationResponse(args.answer.Body).err
          /\ ret.response = NoResponse
    /\ (AuthorizeRan /\ Is2xx /\ args.answer.Body.kind = "object") =>
          /\ ret.err = NoError
          /\ ret.response = [isNil |-> FALSE,
                             AccessToken |-> args.answer.Body.access_token,
                             State |-> args.answer.Body.State]
    /\ op = "Authorize" => (ret.response = NoResponse \/ ret.err = NoError)

\* a 204 whose JSON body has fields of the wrong type
C8_Witness ==
    /\ AuthorizeRan /\ Is2xx
    /\ args.answer.StatusCode = 204
    /\ args.answer.Body.kind = "mistyped"
    /\ ret = [response |-> NoResponse, err |-> JSONErr("UnmarshalTypeError")]

URLKeys == {"client_id", "response_type", "redirect_uri", "scope", "state",
            "approval_prompt"}

\* C9: no URL a builder returns carries the client secret: its query holds
\* only client_id, response_type, redirect_uri, scope and the optional state
\* and approval_prompt, each with the value of its argument; the secret
\* travels in the form POSTed to the token endpoint.
C9_SecretOnlyInForm ==
    /\ op \in URLBuilders =>
          /\ ret.url.path # ClientSecret
          /\ \A i \in 1..Len(ret.url.query) :
                LET key == ret.url.query[i][1]
                    value == ret.url.query[i][2]
                IN  /\ key \in URLKeys
                    /\ value # ClientSecret
                    /\ value = CASE key = "client_id" -> ToString(ClientId)
                                 [] key = "response_type" -> "code"
                                 [] key = "redirect_uri" -> args.callbackURL
                                 [] key = "scope" -> args.scope
                                 [] key = "state" -> args.state
                                 [] key = "approval_prompt" -> "force"
    /\ \A i \in 1..Len(requests) :
          /\ requests[i].method = "POST"
          /\ requests[i].url = basePath \o "/oauth/token"
          /\ requests[i].form["client_secret"] = ClientSecret

\* the method's URL with all six parameters
C9_Witness ==
    /\ op = "OAuthAuthenticator.AuthorizationURL"
    /\ args.state # "" /\ args.force
    /\ ret.err = NoError
    /\ Len(ret.url.query) = 6

\* C10: one call of Authorize, ExchangeToken or the handler issues at most one
\* POST to the token endpoint whatever the outcome, and an exchange that did
\* not succeed is reported: by the error returned, or to the failure
\* continuation.
C10_AtMostOnePost ==
    /\ op \in {"Authorize", "ExchangeToken", "HandlerFunc"} => Len(requests) <= 1
    /\ (/\ op \in {"Authorize", "ExchangeToken"}
        /\ (args.answer.failed \/ args.answer.StatusCode \div 100 # 2
              \/ args.answer.Body.kind # "object")
        /\ requests # <<>>)
          => ret.err # NoError /\ ret.response = NoResponse
    /\ (/\ op = "HandlerFunc"
        /\ (args.answer.failed \/ args.answer.StatusCode \div 100 # 2
              \/ args.answer.Body.kind # "object")
        /\ requests # <<>>)
          => \E i \in 1..Len(calls) : calls[i].fn = "failure"

\* the handler's exchange answered 500: one POST, reported to failure
C10_Witness ==
    /\ op = "HandlerFunc"
    /\ ~args.answer.failed /\ args.answer.StatusCode = 500
    /\ Len(requests) = 1
    /\ calls = <<[fn |-> "failure", err |-> OAuthServerErr, auth |-> NoResponse]>>

====
